---- MODULE Spec2Model ----
(***************************************************************************)
(* Model of the chat gateway of back/src: the routes of api/chat.py         *)
(* (_stream_chat, _handle_chat) driving services/vllm_client.py             *)
(* (get_models, chat_completion, chat_completion_stream) against one        *)
(* OpenAI-compatible backend.                                               *)
(*                                                                          *)
(* Every call is an asyncio task.  An action is the code a task runs        *)
(* between two suspension points (an await on the backend, or the relay's   *)
(* own yield to the sink), so the program counter pc[c] names the place     *)
(* where call c is suspended.  The backend and the caller are the           *)
(* environment: what the backend answers and whether the caller cancels     *)
(* are chosen with \E.                                                      *)
(*                                                                          *)
(* str(e) of an exception is a sequence of text pieces, so that wrapping    *)
(* (f"prefix: {str(e)}") is concatenation and "the message carries X" is    *)
(* membership of a piece.                                                   *)
(***************************************************************************)
EXTENDS Integers, Sequences, FiniteSets, TLC

\* ------------------------------------------------------------------ bounds
\* Requests for the model list one caller makes.
MaxListCalls == 3
\* Lines the backend sends on the event stream of a call that runs alone.
MaxLines == 4
\* Lines the backend sends, on all streams together, to calls that run
\* concurrently.
MaxConcurrentLines == 2

\* ------------------------------------------------------- values and inputs
Calls == {"c1", "c2"}
Before(c, d) == c = "c1" /\ d = "c2"

None == "None"
\* request.model: absent, or an id the catalog does not hold
RequestModels == {None, "mX"}
\* the method the route hands to the handlers
RouteMethod == "basic"
UserMessage == "hi"

Catalogs ==
    { <<>>,
      <<[id |-> "m1"], [id |-> "m2"]>>,
      <<[id |-> "m2"], [id |-> "m1"]>> }

base_url == "http://localhost:8000"

\* ---------------------------------------------------------------- exceptions
Exc(type, msg) == [type |-> type, msg |-> msg]
NoExc == Exc("None", <<>>)

Return(v) == [ok |-> TRUE, value |-> v, exc |-> NoExc]
Raise(e, zero) == [ok |-> FALSE, value |-> zero, exc |-> e]

NoModelsAvailable == Exc("Exception", <<"No models available">>)
ConnectError == Exc("RequestError", <<"All connection attempts failed">>)
StatusError == Exc("HTTPStatusError", <<"Server error '500 Internal Server Error'">>)
JSONDecodeError == Exc("JSONDecodeError", <<"Expecting value">>)
UnboundPayload ==
    Exc("UnboundLocalError",
        <<"cannot access local variable 'payload' where it is not associated with a value">>)

\* --------------------------------------------------------------- get_models
\* What the backend answers to GET /v1/models.
ModelsReplies(cat) ==
    { [kind |-> "ok", data |-> cat],
      [kind |-> "transport", data |-> <<>>],
      [kind |-> "status", data |-> <<>>] }

ModelInfo(model_data) == [id |-> model_data.id, name |-> model_data.id]

\* a client that lists the catalog from its end
get_models_Reversed(reply) ==
    CASE reply.kind = "transport" ->
           Raise(Exc("Exception", <<"Failed to connect to vLLM server at ", base_url>>), <<>>)
      [] reply.kind = "status" -> Raise(StatusError, <<>>)
      [] OTHER ->
           Return([i \in 1..Len(reply.data) |->
                      ModelInfo(reply.data[Len(reply.data) + 1 - i])])
get_models(reply) ==
    CASE reply.kind = "transport" ->
           Raise(Exc("Exception", <<"Failed to connect to vLLM server at ", base_url>>), <<>>)
      [] reply.kind = "status" -> Raise(StatusError, <<>>)
      [] OTHER ->
           Return([i \in 1..Len(reply.data) |-> ModelInfo(reply.data[i])])

\* a client that queries the catalog on every call
NeedsCatalog_Always(model) == TRUE
\* `if not model:` of chat_completion and chat_completion_stream
NeedsCatalog(model) == model = None

\* a client that takes the last entry of the catalog
FirstModel_Last(models) ==
    IF models = <<>> THEN Raise(NoModelsAvailable, None) ELSE Return(models[Len(models)].id)
\* models -> model, or "No models available"
FirstModel(models) ==
    IF models = <<>> THEN Raise(NoModelsAvailable, None) ELSE Return(models[1].id)

\* ----------------------------------------------------------------- messages
ChatMessage(role, content) == [role |-> role, content |-> content]

SystemPrompt(method) ==
    CASE method = "tuning" -> "You are a fine-tuned model optimized for specific tasks."
      [] method = "rag" -> "You are a RAG-enabled assistant with access to additional context."
      [] method = "websearch" -> "You are an assistant with web search capabilities."
      [] OTHER -> ""

\* the message list _stream_chat builds
Messages(method, message) ==
    IF method \in {"tuning", "rag", "websearch"}
    THEN <<ChatMessage("system", SystemPrompt(method)), ChatMessage("user", message)>>
    ELSE <<ChatMessage("user", message)>>

\* a handler that appends the system message instead of inserting it at 0
HandleMessages_Append(method, message) ==
    IF method \in {"tuning", "rag", "websearch"}
    THEN <<ChatMessage("user", message), ChatMessage("system", SystemPrompt(method))>>
    ELSE <<ChatMessage("user", message)>>
\* the message list _handle_chat builds: the same code, written a second time
HandleMessages(method, message) ==
    IF method \in {"tuning", "rag", "websearch"}
    THEN <<ChatMessage("system", SystemPrompt(method)), ChatMessage("user", message)>>
    ELSE <<ChatMessage("user", message)>>

\* -------------------------------------------------------- upstream requests
CatalogQuery == [op |-> "GET /v1/models", model |-> None, messages |-> <<>>, stream |-> FALSE]
Payload(model, messages, stream) ==
    [op |-> "POST /v1/chat/completions", model |-> model, messages |-> messages,
     stream |-> stream]

\* ------------------------------------------------------- the event stream
\* A line of the backend's event stream: the text before the payload, the
\* payload text, and (for a payload that is JSON) the value json.loads gives.
DataPrefix == "data: "
NoChunk == [shape |-> "none", content |-> ""]
Line(prefix, data, chunk) == [prefix |-> prefix, data |-> data, chunk |-> chunk]

\* Decoded chunks, by the shape the relay looks at:
\*   delta      {"choices": [{"delta": {"content": content}}]}
\*   nocontent  {"choices": [{"delta": {"role": "assistant"}}]}
\*   nochoices  {"choices": []}
\*   notdict    [1]  (valid JSON, not an object)
\* (a nochoices chunk is handled like a nocontent one: the backend of the
\* model sends the latter)
Chunk(shape, content) == [shape |-> shape, content |-> content]
Deltas == {"He", "llo", ""}
Chunks ==
    {Chunk("delta", s) : s \in Deltas}
        \cup {Chunk("nocontent", ""), Chunk("notdict", "")}

Lines ==
    {Line(DataPrefix, "json", ch) : ch \in Chunks}
        \cup { Line(DataPrefix, "[DONE]", NoChunk),
               Line(DataPrefix, "{not-json", NoChunk),
               Line("", "", NoChunk) }

\* line.startswith("data: ")
IsDataLine(line) == line.prefix = DataPrefix
\* a client that does not know the sentinel
IsDone_Never(line) == FALSE
\* data.strip() == "[DONE]"
IsDone(line) == line.data = "[DONE]"
\* json.loads(data)
json_loads(line) ==
    IF line.data = "json" THEN Return(line.chunk) ELSE Raise(JSONDecodeError, NoChunk)

\* a client that stops reading at a data line it cannot decode
LineStep_StopAtMalformed(line) ==
    IF ~IsDataLine(line) THEN "ignore"
    ELSE IF IsDone(line) THEN "break"
    ELSE IF json_loads(line).ok THEN "yield"
    ELSE "break"
\* What one line makes chat_completion_stream do: "ignore" it, "break" the
\* loop, "continue" after a decode failure, or "yield" its chunk.
LineStep(line) ==
    IF ~IsDataLine(line) THEN "ignore"
    ELSE IF IsDone(line) THEN "break"
    ELSE IF json_loads(line).ok THEN "yield"
    ELSE "continue"

\* The chunks chat_completion_stream has yielded for a sequence of lines.
RECURSIVE Yielded(_)
Yielded(ls) ==
    IF ls = <<>> THEN <<>>
    ELSE IF LineStep(ls[1]) = "break" THEN <<>>
    ELSE IF LineStep(ls[1]) = "yield" THEN <<json_loads(ls[1]).value>> \o Yielded(Tail(ls))
    ELSE Yielded(Tail(ls))

\* --------------------------------------------------------------- the relay
AttributeError == Exc("AttributeError", <<"'list' object has no attribute 'get'">>)

\* a relay that reads delta["content"] without asking whether it is there
DeltaContent_Unguarded(chunk) ==
    CASE chunk.shape = "notdict" -> Raise(AttributeError, "")
      [] chunk.shape = "nochoices" -> Return("")
      [] chunk.shape = "nocontent" -> Raise(Exc("KeyError", <<"'content'">>), "")
      [] OTHER -> Return(chunk.content)
\* The content delta the relay takes from a chunk ("" when it takes none).
DeltaContent(chunk) ==
    CASE chunk.shape = "notdict" -> Raise(AttributeError, "")
      [] chunk.shape = "nochoices" -> Return("")
      [] chunk.shape = "nocontent" -> Return("")
      [] OTHER -> Return(chunk.content)

ErrorPrefix == "[stream error] "
NoFrameMsg == <<>>
\* a relay that ends every fragment with a newline
ContentFrame_Newline(s) ==
    [kind |-> "content", text |-> s \o "\n", total_chars |-> 0, method |-> None,
     msg |-> NoFrameMsg]
ContentFrame(s) ==
    [kind |-> "content", text |-> s, total_chars |-> 0, method |-> None, msg |-> NoFrameMsg]
MetadataFrame(method, content) ==
    [kind |-> "metadata", text |-> "", total_chars |-> Len(content),
     method |-> IF method # "basic" THEN method ELSE None, msg |-> NoFrameMsg]
ErrorFrame(e) ==
    [kind |-> "error", text |-> "", total_chars |-> 0, method |-> None,
     msg |-> <<ErrorPrefix>> \o e.msg]

\* an except clause that logs and yields nothing
RelayExcept_Silent(o, e) == o
\* an except clause that falls through to the code after the loop
RelayExcept_ThenMetadata(o, e) ==
    Append(Append(o, ErrorFrame(e)), MetadataFrame("basic", ""))
\* `except Exception as e: yield "[ERROR]..."` of _stream_chat
RelayExcept(o, e) == Append(o, ErrorFrame(e))
\* the code after the loop of _stream_chat
RelayEnd(o, method, content) == Append(o, MetadataFrame(method, content))
\* `full_content = content_chunk`
Accumulate_Overwrite(content, content_chunk) == content_chunk
\* `full_content += content_chunk`
Accumulate(content, content_chunk) == content \o content_chunk

\* ------------------------------------------------------------------- state
VARIABLES
    catalog,       \* the backend's model catalog
    pc,            \* where each call is suspended
    req,           \* the ChatRequest of each call, with the route's method
    upstream,      \* the requests each call has sent to the backend, in order
    seen,          \* the catalog the backend returned to each call's query
    lines,         \* the lines the backend has sent on each call's stream
    conn,          \* each call's streaming response: "none", "open", "closed"
    full_content,  \* _stream_chat's full_content
    out,           \* the frames each call has yielded to its sink
    cause,         \* the first exception raised in each call
    result,        \* what _handle_chat returned or raised
    completion_tokens,  \* _handle_chat's completion_tokens
    time_taken,    \* _handle_chat's time_taken, in milliseconds
    returned       \* what GET /api/models has answered to each caller, in order

vars == <<catalog, pc, req, upstream, seen, lines, conn, full_content, out, cause, result,
          completion_tokens, time_taken, returned>>

ChatRequest(message, model, stream) ==
    [message |-> message, model |-> model, stream |-> stream, method |-> RouteMethod]

NoResult ==
    [kind |-> "none", status_code |-> 0, detail |-> <<>>, content |-> "", model |-> None,
     tokens_per_second |-> 0]

InitCalls ==
    /\ catalog \in Catalogs
    /\ req = [c \in Calls |-> ChatRequest(UserMessage, None, FALSE)]
    /\ upstream = [c \in Calls |-> <<>>]
    /\ seen = [c \in Calls |-> <<>>]
    /\ lines = [c \in Calls |-> <<>>]
    /\ conn = [c \in Calls |-> "none"]
    /\ full_content = [c \in Calls |-> ""]
    /\ out = [c \in Calls |-> <<>>]
    /\ cause = [c \in Calls |-> NoExc]
    /\ result = [c \in Calls |-> NoResult]
    /\ completion_tokens = [c \in Calls |-> 0]
    /\ time_taken = [c \in Calls |-> 0]
    /\ returned = [c \in Calls |-> <<>>]

\* one call, alone
Init ==
    /\ pc = [c \in Calls |-> IF c = "c1" THEN "idle" ELSE "absent"]
    /\ InitCalls

\* two calls, which may overlap
InitConcurrent ==
    /\ pc = [c \in Calls |-> "idle"]
    /\ InitCalls

\* ------------------------------------------------- chat_completion_stream
ReadError == Exc("RequestError", <<"peer closed connection without sending complete message body">>)

\* The except clauses of chat_completion_stream: a RequestError becomes a
\* plain Exception with a fixed message, anything else is re-raised as it is.
StreamClientExcept(e) ==
    IF e.type = "RequestError"
    THEN Exc("Exception", <<"Failed to communicate with vLLM server">>)
    ELSE e

\* The relay ends in FAILED: the exception `raised` reaches _stream_chat's
\* except clause, which yields the [ERROR] frame.
RelayFails(c, first, raised) ==
    /\ cause' = [cause EXCEPT ![c] = first]
    /\ out' = [out EXCEPT ![c] = RelayExcept(out[c], raised)]
    /\ pc' = [pc EXCEPT ![c] = "FAILED"]

\* a relay whose full_content is one module-level buffer for all calls
RelayCompletes_Shared(c) ==
    /\ out' = [out EXCEPT ![c] =
                  RelayEnd(out[c], req[c].method, full_content["c1"] \o full_content["c2"])]
    /\ pc' = [pc EXCEPT ![c] = "COMPLETED"]
\* The relay's loop ends without an exception: the [METADATA] frame.
RelayCompletes(c) ==
    /\ out' = [out EXCEPT ![c] = RelayEnd(out[c], req[c].method, full_content[c])]
    /\ pc' = [pc EXCEPT ![c] = "COMPLETED"]

\* ------------------------------------------------------------------ actions
\* The bound on the backend's lines: a call that never arrives is "absent".
RECURSIVE SumLen(_, _)
SumLen(f, S) ==
    IF S = {} THEN 0
    ELSE LET c == CHOOSE x \in S : TRUE IN Len(f[c]) + SumLen(f, S \ {c})
LinesSent == SumLen(lines, Calls)
LineBudget == IF \E c \in Calls : pc[c] = "absent" THEN MaxLines ELSE MaxConcurrentLines

\* POST /api/chat/basic arrives: chat_basic starts _stream_chat or
\* _handle_chat, which runs up to the client's first await.
chat_basic(c, model, stream) ==
    /\ pc[c] = "idle"
    \* calls are numbered in the order they arrive
    /\ \A d \in Calls : Before(d, c) => pc[d] # "idle"
    /\ req' = [req EXCEPT ![c] = ChatRequest(UserMessage, model, stream)]
    /\ IF NeedsCatalog(model)
       THEN /\ upstream' = [upstream EXCEPT ![c] = Append(@, CatalogQuery)]
            /\ pc' = [pc EXCEPT ![c] = IF stream THEN "s_models" ELSE "n_models"]
       ELSE /\ upstream' = [upstream EXCEPT ![c] =
                   Append(@, Payload(model,
                                     IF stream THEN Messages(RouteMethod, UserMessage)
                                     ELSE HandleMessages(RouteMethod, UserMessage),
                                     stream))]
            /\ pc' = [pc EXCEPT ![c] = IF stream THEN "s_open" ELSE "n_post"]
    /\ UNCHANGED <<catalog, seen, lines, conn, full_content, out, cause, result,
                   completion_tokens, time_taken, returned>>

\* The backend replaces its catalog.
CatalogChange(cat) ==
    /\ cat # catalog
    /\ catalog' = cat
    /\ UNCHANGED <<pc, req, upstream, seen, lines, conn, full_content, out, cause, result,
                   completion_tokens, time_taken, returned>>

\* chat_completion_stream gets the answer to its catalog query.
StreamModelsReply(c, reply) ==
    /\ pc[c] = "s_models"
    /\ seen' = [seen EXCEPT ![c] = reply.data]
    /\ LET r == get_models(reply)
           m == IF r.ok THEN FirstModel(r.value) ELSE Raise(r.exc, None)
       IN  IF m.ok
           THEN /\ upstream' = [upstream EXCEPT ![c] =
                       Append(@, Payload(m.value, Messages(req[c].method, req[c].message), TRUE))]
                /\ pc' = [pc EXCEPT ![c] = "s_open"]
                /\ UNCHANGED <<out, cause>>
           ELSE /\ RelayFails(c, m.exc, StreamClientExcept(m.exc))
                /\ UNCHANGED upstream
    /\ UNCHANGED <<catalog, req, lines, conn, full_content, result, completion_tokens, time_taken, returned>>

\* The backend answers the streaming POST: response headers, or no response.
StreamOpenReply(c, kind) ==
    /\ pc[c] = "s_open"
    /\ CASE kind = "ok" ->
              /\ conn' = [conn EXCEPT ![c] = "open"]
              /\ pc' = [pc EXCEPT ![c] = "s_read"]
              /\ UNCHANGED <<out, cause>>
         [] kind = "status" ->
              \* raise_for_status() inside `async with`: the response is closed
              /\ conn' = [conn EXCEPT ![c] = "closed"]
              /\ RelayFails(c, StatusError, StreamClientExcept(StatusError))
         [] OTHER ->
              /\ RelayFails(c, ConnectError, StreamClientExcept(ConnectError))
              /\ UNCHANGED conn
    /\ UNCHANGED <<catalog, req, upstream, seen, lines, full_content, result,
                   completion_tokens, time_taken, returned>>

\* The backend sends one line; chat_completion_stream handles it and, when it
\* yields a chunk, the relay handles the chunk up to its own yield.
StreamLine(c, line) ==
    /\ pc[c] = "s_read"
    /\ LinesSent < LineBudget
    /\ lines' = [lines EXCEPT ![c] = Append(@, line)]
    /\ CASE LineStep(line) = "break" ->
              /\ conn' = [conn EXCEPT ![c] = "closed"]
              /\ RelayCompletes(c)
              /\ UNCHANGED <<full_content, cause>>
         [] LineStep(line) = "yield" ->
              LET d == DeltaContent(json_loads(line).value)
              IN  IF ~d.ok
                  THEN \* raised in the relay: the client's generator stays
                       \* suspended at its yield, inside `async with`
                       /\ RelayFails(c, d.exc, d.exc)
                       /\ UNCHANGED <<conn, full_content>>
                  ELSE IF d.value # ""
                  THEN /\ full_content' = [full_content EXCEPT ![c] = Accumulate(@, d.value)]
                       /\ out' = [out EXCEPT ![c] = Append(@, ContentFrame(d.value))]
                       /\ pc' = [pc EXCEPT ![c] = "s_yield"]
                       /\ UNCHANGED <<conn, cause>>
                  ELSE UNCHANGED <<pc, conn, full_content, out, cause>>
         [] OTHER -> UNCHANGED <<pc, conn, full_content, out, cause>>
    /\ UNCHANGED <<catalog, req, upstream, seen, result, completion_tokens, time_taken, returned>>

\* a client that takes the end of a stream without the sentinel for a failure
StreamEOF_Incomplete(c) ==
    /\ pc[c] = "s_read"
    /\ conn' = [conn EXCEPT ![c] = "closed"]
    /\ RelayFails(c, Exc("Exception", <<"stream ended without [DONE]">>),
                  Exc("Exception", <<"stream ended without [DONE]">>))
    /\ UNCHANGED <<catalog, req, upstream, seen, lines, full_content, result,
                   completion_tokens, time_taken, returned>>

\* The backend closes the stream cleanly: aiter_lines() is exhausted.
StreamEOF(c) ==
    /\ pc[c] = "s_read"
    /\ conn' = [conn EXCEPT ![c] = "closed"]
    /\ RelayCompletes(c)
    /\ UNCHANGED <<catalog, req, upstream, seen, lines, full_content, cause, result,
                   completion_tokens, time_taken, returned>>

\* a client that answers a dropped stream by sending the request again
StreamDrop_Retry(c) ==
    /\ pc[c] = "s_read"
    /\ conn' = [conn EXCEPT ![c] = "closed"]
    /\ upstream' = [upstream EXCEPT ![c] = Append(@, @[Len(@)])]
    /\ pc' = [pc EXCEPT ![c] = "s_open"]
    /\ UNCHANGED <<catalog, req, seen, lines, full_content, out, cause, result,
                   completion_tokens, time_taken, returned>>

\* The connection drops, or the read times out: httpx raises a RequestError.
StreamDrop(c) ==
    /\ pc[c] = "s_read"
    /\ conn' = [conn EXCEPT ![c] = "closed"]
    /\ RelayFails(c, ReadError, StreamClientExcept(ReadError))
    /\ UNCHANGED <<catalog, req, upstream, seen, lines, full_content, result,
                   completion_tokens, time_taken, returned>>

\* The sink has taken the fragment and asks for the next item.
SinkNext(c) ==
    /\ pc[c] = "s_yield"
    /\ pc' = [pc EXCEPT ![c] = "s_read"]
    /\ UNCHANGED <<catalog, req, upstream, seen, lines, conn, full_content, out, cause, result,
                   completion_tokens, time_taken, returned>>

\* The caller disconnects.  While the relay awaits the backend, CancelledError
\* is thrown into that await and leaves through `async with`; while the relay
\* is suspended at its own yield, nothing runs in either generator.
Cancel(c) ==
    /\ pc[c] \in {"s_models", "s_open", "s_read", "s_yield"}
    /\ pc' = [pc EXCEPT ![c] = "CANCELLED"]
    /\ conn' = [conn EXCEPT ![c] =
                   IF pc[c] = "s_read" /\ @ = "open" THEN "closed" ELSE @]
    /\ UNCHANGED <<catalog, req, upstream, seen, lines, full_content, out, cause, result,
                   completion_tokens, time_taken, returned>>

\* The garbage collector finalizes an abandoned generator: the event loop's
\* asyncgen hook runs aclose(), which leaves `async with`.
Finalize(c) ==
    /\ pc[c] \in {"FAILED", "CANCELLED"}
    /\ conn[c] = "open"
    /\ conn' = [conn EXCEPT ![c] = "closed"]
    /\ UNCHANGED <<catalog, pc, req, upstream, seen, lines, full_content, out, cause, result,
                   completion_tokens, time_taken, returned>>

\* ---------------------------------------------------------- chat_completion
\* What the backend answers to the non-streaming POST: no answer, an error
\* status, or a body (its text, and the value response.json() gives).
\* JSON bodies, by the shape _handle_chat looks at:
\*   completion  {"choices": [{"message": {"content": content}}], "model": ..}
\*   nochoices   {"error": ..}
\*   notdict     [1]
\*   (a completion also holds {"usage": {"completion_tokens": ..}})
Json(shape, content, model, tokens) ==
    [shape |-> shape, content |-> content, model |-> model, completion_tokens |-> tokens]
NoJson == Json("none", "", None, 0)
Reply(kind, text, json) == [kind |-> kind, text |-> text, json |-> json]
CompletionReplies(model) ==
    { Reply("transport", "", NoJson),
      Reply("status", "", NoJson),
      Reply("body", "", NoJson),
      Reply("body", "{not-json", NoJson),
      Reply("body", "json", Json("completion", "Hello", model, 7)),
      Reply("body", "json", Json("nochoices", "", None, 0)),
      Reply("body", "json", Json("notdict", "", None, 0)) }

\* The try block of chat_completion from the POST on.
CompletionBody(reply) ==
    CASE reply.kind = "transport" -> Raise(ConnectError, NoJson)
      [] reply.kind = "status" -> Raise(StatusError, NoJson)
      [] reply.text = "" ->
           Raise(Exc("Exception", <<"Empty response from vLLM server">>), NoJson)
      [] reply.text # "json" ->
           Raise(Exc("Exception",
                     <<"Invalid JSON response from vLLM: ">> \o JSONDecodeError.msg), NoJson)
      [] OTHER -> Return(reply.json)

\* except clauses that raise a fixed message and drop str(e)
CompletionExcept_DropCause(e, payload_bound) ==
    IF ~payload_bound THEN UnboundPayload
    ELSE IF e.type = "RequestError"
    THEN Exc("Exception", <<"Failed to communicate with vLLM server: ">>)
    ELSE Exc("Exception", <<"Chat completion error: ">>)
\* The except clauses of chat_completion.  Both log `payload` before they
\* raise; payload_bound says whether the try block got as far as binding it.
CompletionExcept(e, payload_bound) ==
    IF ~payload_bound THEN UnboundPayload
    ELSE IF e.type = "RequestError"
    THEN Exc("Exception", <<"Failed to communicate with vLLM server: ">> \o e.msg)
    ELSE Exc("Exception", <<"Chat completion error: ">> \o e.msg)

\* ------------------------------------------------------------- _handle_chat
KeyError == Exc("KeyError", <<"'choices'">>)
TypeError == Exc("TypeError", <<"list indices must be integers or slices, not str">>)

\* response_data["choices"][0]["message"]["content"]
Content(response_data) ==
    CASE response_data.shape = "notdict" -> Raise(TypeError, "")
      [] response_data.shape = "nochoices" -> Raise(KeyError, "")
      [] OTHER -> Return(response_data.content)

\* round(num / den, 2) in hundredths, for num >= 0 and den > 0: the nearest
\* hundredth, and of two equally near ones the even one
round_Truncate(num, den) == (100 * num) \div den
round(num, den) ==
    LET q == (100 * num) \div den
        r == (100 * num) % den
    IN  IF 2 * r < den THEN q
        ELSE IF 2 * r > den THEN q + 1
        ELSE q + (q % 2)

\* completion_tokens / time_taken if time_taken > 0 else 0, rounded; the time
\* is in milliseconds and the result in hundredths of a token per second
tokens_per_second(tokens, ms) == IF ms > 0 THEN round(tokens * 1000, ms) ELSE 0

HTTPException(status_code, detail) ==
    [kind |-> "HTTPException", status_code |-> status_code, detail |-> detail,
     content |-> "", model |-> None, tokens_per_second |-> 0]
ChatResponse(content, model, tps) ==
    [kind |-> "ChatResponse", status_code |-> 200, detail |-> <<>>,
     content |-> content, model |-> model, tokens_per_second |-> tps]

\* `except Exception as e: raise HTTPException(...)` of _handle_chat
HandleExcept(e, method) == HTTPException(500, <<"Chat processing failed: ">> \o e.msg)

\* _handle_chat is rejected: `raised` reaches its except clause.
ChatFails(c, first, raised) ==
    /\ cause' = [cause EXCEPT ![c] = first]
    /\ result' = [result EXCEPT ![c] = HandleExcept(raised, req[c].method)]
    /\ pc' = [pc EXCEPT ![c] = "REJECTED"]

\* chat_completion gets the answer to its catalog query.
ChatModelsReply(c, reply) ==
    /\ pc[c] = "n_models"
    /\ seen' = [seen EXCEPT ![c] = reply.data]
    /\ LET r == get_models(reply)
           m == IF r.ok THEN FirstModel(r.value) ELSE Raise(r.exc, None)
       IN  IF m.ok
           THEN /\ upstream' = [upstream EXCEPT ![c] =
                       Append(@, Payload(m.value,
                                         HandleMessages(req[c].method, req[c].message),
                                         req[c].stream))]
                /\ pc' = [pc EXCEPT ![c] = "n_post"]
                /\ UNCHANGED <<cause, result>>
           ELSE /\ ChatFails(c, m.exc, CompletionExcept(m.exc, FALSE))
                /\ UNCHANGED upstream
    /\ UNCHANGED <<catalog, req, lines, conn, full_content, out, completion_tokens,
                   time_taken, returned>>

\* chat_completion handles the answer to its POST and _handle_chat finishes,
\* `elapsed` milliseconds of the wall clock after it started.
ChatReplied(c, reply, elapsed) ==
    /\ LET r == CompletionBody(reply)
           content == IF r.ok THEN Content(r.value) ELSE Raise(r.exc, "")
       IN  IF ~r.ok
           THEN /\ ChatFails(c, r.exc, CompletionExcept(r.exc, TRUE))
                /\ UNCHANGED <<completion_tokens, time_taken, returned>>
           ELSE IF ~content.ok
           THEN /\ ChatFails(c, content.exc, content.exc)
                /\ UNCHANGED <<completion_tokens, time_taken, returned>>
           ELSE /\ completion_tokens' =
                       [completion_tokens EXCEPT ![c] = r.value.completion_tokens]
                /\ time_taken' = [time_taken EXCEPT ![c] = elapsed]
                /\ result' = [result EXCEPT ![c] =
                       ChatResponse(content.value, r.value.model,
                                    tokens_per_second(r.value.completion_tokens, elapsed))]
                /\ pc' = [pc EXCEPT ![c] = "RETURNED"]
                /\ UNCHANGED cause
    /\ UNCHANGED <<catalog, req, upstream, seen, lines, conn, full_content, out, returned>>

\* the model of the last request a call has sent upstream
SentModel(c) == upstream[c][Len(upstream[c])].model

ChatReply(c) ==
    /\ pc[c] = "n_post"
    /\ \E reply \in CompletionReplies(SentModel(c)) : ChatReplied(c, reply, 1000)

\* ------------------------------------------------------------ specification

Next ==
    \/ \E c \in Calls, model \in RequestModels, stream \in BOOLEAN : chat_basic(c, model, stream)
    \/ \E cat \in Catalogs : CatalogChange(cat)
    \/ \E c \in Calls : \E reply \in ModelsReplies(catalog) : StreamModelsReply(c, reply)
    \/ \E c \in Calls : \E kind \in {"ok", "status", "transport"} : StreamOpenReply(c, kind)
    \/ \E c \in Calls : \E line \in Lines : StreamLine(c, line)
    \/ \E c \in Calls : StreamEOF(c)
    \/ \E c \in Calls : StreamDrop(c)
    \/ \E c \in Calls : SinkNext(c)
    \/ \E c \in Calls : Cancel(c)
    \/ \E c \in Calls : Finalize(c)
    \/ \E c \in Calls : \E reply \in ModelsReplies(catalog) : ChatModelsReply(c, reply)
    \/ \E c \in Calls : ChatReply(c)

Spec == Init /\ [][Next]_vars

\* ------------------------------------------------------ message composition
\* The handlers take any method; only the basic route reaches them.
Methods == {"basic", "tuning", "rag", "websearch"}
UserMessages == {"hi", ""}

\* _stream_chat or _handle_chat starts with a method and a message, builds
\* its message list and hands it to the client, which sends the completion
\* request (the model id is given).
Compose(c, method, message, stream) ==
    /\ pc[c] = "idle"
    /\ req' = [req EXCEPT ![c] =
                  [message |-> message, model |-> "mX", stream |-> stream, method |-> method]]
    /\ upstream' = [upstream EXCEPT ![c] =
                       Append(@, Payload("mX",
                                         IF stream THEN Messages(method, message)
                                         ELSE HandleMessages(method, message),
                                         stream))]
    /\ pc' = [pc EXCEPT ![c] = IF stream THEN "s_open" ELSE "n_post"]
    /\ UNCHANGED <<catalog, seen, lines, conn, full_content, out, cause, result,
                   completion_tokens, time_taken, returned>>

NextCompose ==
    \E c \in Calls, method \in Methods, message \in UserMessages, stream \in BOOLEAN :
        Compose(c, method, message, stream)

SpecCompose == InitConcurrent /\ [][NextCompose]_vars

SpecConcurrent == InitConcurrent /\ [][Next]_vars

\* ------------------------------------------------------------ GET /api/models
ModelsResponse(models) == [kind |-> "ModelsResponse", models |-> models, count |-> Len(models)]

\* The route get_models: the client's list, or HTTP 500 with str(e).
api_models(c, reply) ==
    /\ Len(returned[c]) < MaxListCalls
    /\ LET r == get_models(reply)
       IN  returned' = [returned EXCEPT ![c] =
               Append(@, IF r.ok THEN ModelsResponse(r.value)
                         ELSE [kind |-> "HTTPException", status_code |-> 500,
                               detail |-> r.exc.msg])]
    /\ UNCHANGED <<catalog, pc, req, upstream, seen, lines, conn, full_content, out, cause,
                   result, completion_tokens, time_taken>>

\* the backend's catalog does not change
NextModels == \E c \in Calls : \E reply \in ModelsReplies(catalog) : api_models(c, reply)

SpecModels == InitConcurrent /\ [][NextModels]_vars

\* -------------------------------------------------------- tokens per second
\* what the backend reports as usage.completion_tokens
Tokens == {0, 1, 2, 7}
\* end_time - start_time of time.time(), the wall clock, in milliseconds
ElapsedMs == {-500, 0, 400, 3000, 8000, 250000}

\* two non-streaming calls that wait for the answer to their completion
\* request
InitMetrics ==
    /\ catalog \in Catalogs
    /\ pc = [c \in Calls |-> "n_post"]
    /\ req = [c \in Calls |-> ChatRequest(UserMessage, "mX", FALSE)]
    /\ upstream = [c \in Calls |->
                      <<Payload("mX", HandleMessages(RouteMethod, UserMessage), FALSE)>>]
    /\ seen = [c \in Calls |-> <<>>]
    /\ lines = [c \in Calls |-> <<>>]
    /\ conn = [c \in Calls |-> "none"]
    /\ full_content = [c \in Calls |-> ""]
    /\ out = [c \in Calls |-> <<>>]
    /\ cause = [c \in Calls |-> NoExc]
    /\ result = [c \in Calls |-> NoResult]
    /\ completion_tokens = [c \in Calls |-> 0]
    /\ time_taken = [c \in Calls |-> 0]
    /\ returned = [c \in Calls |-> <<>>]

\* the backend answers with a completion
ChatCompleted(c, tokens, elapsed) ==
    /\ pc[c] = "n_post"
    /\ ChatReplied(c, Reply("body", "json", Json("completion", "Hello", SentModel(c), tokens)),
                   elapsed)

NextMetrics ==
    \E c \in Calls, tokens \in Tokens, elapsed \in ElapsedMs : ChatCompleted(c, tokens, elapsed)

SpecMetrics == InitMetrics /\ [][NextMetrics]_vars

\* ================================================================== claims
Terminal(frame) == frame.kind \in {"metadata", "error"}
Last(o) == o[Len(o)]
Front(o) == SubSeq(o, 1, Len(o) - 1)
Ended(c) == pc[c] \in {"COMPLETED", "FAILED"}
Streaming(c) == req[c].stream /\ pc[c] \notin {"idle", "absent"}

\* the texts of the content fragments of an output sequence, in order
RECURSIVE FragmentTexts(_)
FragmentTexts(o) ==
    IF o = <<>> THEN <<>>
    ELSE (IF o[1].kind = "content" THEN <<o[1].text>> ELSE <<>>) \o FragmentTexts(Tail(o))

RECURSIVE Concat(_)
Concat(texts) == IF texts = <<>> THEN "" ELSE texts[1] \o Concat(Tail(texts))

\* The content deltas a sequence of backend lines carries, in arrival order:
\* the non-empty content of every well-formed data line up to the sentinel
\* or to the first chunk that is not an object.
RECURSIVE ArrivedDeltas(_)
ArrivedDeltas(ls) ==
    IF ls = <<>> THEN <<>>
    ELSE LET l == ls[1] IN
         IF l.prefix = "data: " /\ l.data = "[DONE]" THEN <<>>
         ELSE IF l.prefix = "data: " /\ l.data = "json" /\ l.chunk.shape = "notdict" THEN <<>>
         ELSE IF l.prefix = "data: " /\ l.data = "json" /\ l.chunk.shape = "delta"
                 /\ l.chunk.content # ""
         THEN <<l.chunk.content>> \o ArrivedDeltas(Tail(ls))
         ELSE ArrivedDeltas(Tail(ls))

\* C1: a streaming call never emits more than one terminal frame ([METADATA]
\* or [ERROR]); a terminal frame is the last item of the output; and a call
\* that has run to its end has emitted one.
C1_OneTerminalFrameLast ==
    \A c \in Calls :
        /\ \A i \in DOMAIN out[c] : Terminal(out[c][i]) => i = Len(out[c])
        /\ Cardinality({i \in DOMAIN out[c] : Terminal(out[c][i])}) <= 1
        /\ (Streaming(c) /\ Ended(c)) => (out[c] # <<>> /\ Terminal(Last(out[c])))
        /\ (out[c] # <<>> /\ Terminal(Last(out[c]))) => Ended(c)
        /\ pc[c] = "COMPLETED" => Last(out[c]).kind = "metadata"
        /\ pc[c] = "FAILED" => Last(out[c]).kind = "error"

\* a call that failed in mid-stream, after a malformed line and a fragment
C1_Witness ==
    \E c \in Calls :
        /\ pc[c] = "FAILED"
        /\ Len(out[c]) >= 2
        /\ \E i \in DOMAIN lines[c] : lines[c][i].data = "{not-json"

\* C2: full_content is at every step the concatenation of the fragments
\* emitted so far, and the total_chars of a [METADATA] frame is the length of
\* the concatenation of all fragments emitted.
C2_TotalCharsIsEmittedLength ==
    \A c \in Calls :
        /\ full_content[c] = Concat(FragmentTexts(out[c]))
        /\ pc[c] = "COMPLETED" =>
               Last(out[c]).total_chars = Len(Concat(FragmentTexts(out[c])))

\* "He" and "llo" were emitted and the metadata frame counts 5 characters
C2_Witness ==
    \E c \in Calls :
        /\ pc[c] = "COMPLETED"
        /\ FragmentTexts(out[c]) = <<"He", "llo">>
        /\ Last(out[c]).total_chars = 5

\* C3: the fragments in the sink are exactly the content deltas of the lines
\* that have arrived, in arrival order and unchanged, at every step: nothing
\* is held back, and while the relay is suspended at its yield the fragment
\* it has just emitted is the delta of the last line read.
C3_FragmentsInArrivalOrder ==
    \A c \in Calls :
        /\ FragmentTexts(out[c]) = ArrivedDeltas(lines[c])
        /\ pc[c] = "s_yield" =>
               /\ Last(out[c]).kind = "content"
               /\ Last(out[c]).text = Last(lines[c]).chunk.content

\* two deltas with a skipped line between them, forwarded in order; two equal
\* deltas are forwarded twice
C3_Witness ==
    \E c \in Calls :
        /\ Len(lines[c]) = 4
        /\ lines[c][2].data = "{not-json"
        /\ FragmentTexts(out[c]) = <<"llo", "He", "He">>

\* the requests of one kind a call has sent upstream
PostsOf(u) == SelectSeq(u, LAMBDA r : r.op = "POST /v1/chat/completions")
QueriesOf(u) == SelectSeq(u, LAMBDA r : r.op = "GET /v1/models")
Arrived(c) == pc[c] \notin {"idle", "absent"}
\* every piece of str(e) is a piece of msg
Carries(msg, e) == \A i \in DOMAIN e.msg : \E j \in DOMAIN msg : msg[j] = e.msg[i]

\* C4: a call whose request names a model sends exactly one upstream request,
\* the completion request with that id as its model, and no catalog query,
\* on the streaming and on the non-streaming path, whether or not the catalog
\* holds the id.
C4_ExplicitModelVerbatim ==
    \A c \in Calls :
        (Arrived(c) /\ req[c].model # None) =>
            /\ QueriesOf(upstream[c]) = <<>>
            /\ seen[c] = <<>>
            /\ upstream[c] =
                   <<Payload(req[c].model, Messages(req[c].method, req[c].message),
                             req[c].stream)>>

\* a streaming and a non-streaming call, both with the id "mX" that the
\* catalog does not hold, both served
C4_Witness ==
    /\ req["c1"].model = "mX" /\ req["c2"].model = "mX"
    /\ req["c1"].stream # req["c2"].stream
    /\ \A c \in Calls : pc[c] \in {"COMPLETED", "RETURNED"}
    /\ catalog # <<>> /\ \A i \in DOMAIN catalog : catalog[i].id # "mX"

\* C5: a call whose request names no model queries the catalog once, as its
\* first upstream request; when the catalog it gets is non-empty its one
\* completion request names the first entry of that catalog, and otherwise it
\* sends no completion request.
C5_FallbackFirstCatalogEntry ==
    \A c \in Calls :
        (Arrived(c) /\ req[c].model = None) =>
            /\ upstream[c][1] = CatalogQuery
            /\ Len(QueriesOf(upstream[c])) = 1
            /\ IF seen[c] # <<>>
               THEN upstream[c] =
                        <<CatalogQuery,
                          Payload(seen[c][1].id, Messages(req[c].method, req[c].message),
                                  req[c].stream)>>
               ELSE upstream[c] = <<CatalogQuery>>

\* two overlapping calls without a model id that resolved to different
\* models, each to the head of the catalog its own query returned
C5_Witness ==
    /\ req["c1"].model = None /\ req["c2"].model = None
    /\ seen["c1"] = <<[id |-> "m1"], [id |-> "m2"]>>
    /\ seen["c2"] = <<[id |-> "m2"], [id |-> "m1"]>>
    /\ PostsOf(upstream["c1"])[1].model = "m1"
    /\ PostsOf(upstream["c2"])[1].model = "m2"
    /\ pc["c1"] \in {"s_open", "n_post"} /\ pc["c2"] \in {"s_open", "n_post"}

\* C6: a call that found the catalog empty sends no completion request and
\* fails with the "No models available" error: the HTTPException of the
\* non-streaming path and the single [ERROR] frame of the streaming path carry
\* that message.
C6_EmptyCatalogNoModelsAvailable ==
    \A c \in Calls :
        cause[c] = NoModelsAvailable =>
            /\ PostsOf(upstream[c]) = <<>>
            /\ req[c].stream =>
                   /\ pc[c] = "FAILED"
                   /\ Len(out[c]) = 1
                   /\ out[c][1].kind = "error"
                   /\ Carries(out[c][1].msg, NoModelsAvailable)
            /\ ~req[c].stream =>
                   /\ pc[c] = "REJECTED"
                   /\ result[c].kind = "HTTPException"
                   /\ Carries(result[c].detail, NoModelsAvailable)

\* C7: a rejected non-streaming call is rejected with HTTP 500 and a detail
\* that carries the method name and the message of the failure that caused it.
C7_RejectionCarriesMethodAndCause ==
    \A c \in Calls :
        pc[c] = "REJECTED" =>
            /\ result[c].kind = "HTTPException"
            /\ result[c].status_code = 500
            /\ \E j \in DOMAIN result[c].detail : result[c].detail[j] = req[c].method
            /\ Carries(result[c].detail, cause[c])

\* C8: a streaming call in which an exception was raised is FAILED; its
\* output is the fragments of the deltas that arrived before the failure,
\* followed by one [ERROR] frame and nothing else (no [METADATA] frame); the
\* frame's message is the error prefix followed by a description, which is
\* the raised exception's own message unless the failure was a transport
\* error, which the client describes with its fixed message.
C8_FailureEmitsOneErrorFrame ==
    \A c \in Calls :
        (req[c].stream /\ cause[c] # NoExc) =>
            /\ pc[c] = "FAILED"
            /\ out[c] # <<>>
            /\ Last(out[c]).kind = "error"
            /\ \A i \in 1..(Len(out[c]) - 1) : out[c][i].kind = "content"
            /\ FragmentTexts(out[c]) = ArrivedDeltas(lines[c])
            /\ Len(Last(out[c]).msg) >= 2
            /\ Last(out[c]).msg[1] = ErrorPrefix
            /\ IF cause[c].type = "RequestError"
               THEN Last(out[c]).msg[2] = "Failed to communicate with vLLM server"
               ELSE Carries(Last(out[c]).msg, cause[c])

\* the connection dropped after the fragment "He" had been emitted
C8_Witness ==
    \E c \in Calls :
        /\ cause[c] = ReadError
        /\ pc[c] = "FAILED"
        /\ FragmentTexts(out[c]) = <<"He">>
        /\ Len(out[c]) = 2

\* The state of the relay, from the place where _stream_chat is suspended.
RelayStateAt(p) ==
    CASE p \in {"s_models", "s_open"} -> "STARTED"
      [] p \in {"s_read", "s_yield"} -> "STREAMING"
      [] p \in {"COMPLETED", "FAILED", "CANCELLED"} -> p
      [] OTHER -> "NONE"

RelaySteps ==
    { <<"NONE", "STARTED">>, <<"STARTED", "STREAMING">>, <<"STARTED", "FAILED">>,
      <<"STREAMING", "COMPLETED">>, <<"STREAMING", "FAILED">>,
      <<"STARTED", "CANCELLED">>, <<"STREAMING", "CANCELLED">> }

C10_CancelClosesBackendStream ==
    \A c \in Calls : pc[c] = "CANCELLED" => conn[c] # "open"

\* ------------------------------------------------------------- termination
\* The steps of call c that the event loop and the backend client's timer
\* take sooner or later: the backend answers an await or the await times out
\* (httpx.AsyncClient(timeout=api_timeout) raises a RequestError), and the
\* sink takes a fragment it was given.  Cancellation and garbage collection
\* are not among them.
Progress(c) ==
    \/ \E reply \in ModelsReplies(catalog) : StreamModelsReply(c, reply)
    \/ \E kind \in {"ok", "status", "transport"} : StreamOpenReply(c, kind)
    \/ \E line \in Lines : StreamLine(c, line)
    \/ StreamEOF(c)
    \/ StreamDrop(c)
    \/ SinkNext(c)
    \/ \E reply \in ModelsReplies(catalog) : ChatModelsReply(c, reply)
    \/ ChatReply(c)

SpecLive == Init /\ [][Next]_vars /\ \A c \in Calls : WF_vars(Progress(c))

\* the call's first failure is an await on the backend that got no answer
Unanswered(c) ==
    \/ cause[c].type = "RequestError"
    \/ cause[c] = get_models([kind |-> "transport", data |-> <<>>]).exc
\* the texts with which the backend client reports an unreachable backend
BackendUnreachable ==
    { "Failed to connect to vLLM server at ",
      "Failed to communicate with vLLM server",
      "Failed to communicate with vLLM server: " }
ReportsUnreachable(msg) == \E j \in DOMAIN msg : msg[j] \in BackendUnreachable
Done(c) == pc[c] \in {"COMPLETED", "FAILED", "CANCELLED", "RETURNED", "REJECTED"}
\* every call that has arrived ends (the half of C11 that holds of the program)
EveryCallEnds == \A c \in Calls : Arrived(c) ~> Done(c)

\* C11: every call that has arrived eventually ends (a non-streaming call is
\* answered or rejected, a streaming call that is not cancelled emits its
\* terminal frame), and a call whose await on the backend got no answer
\* within the timeout ends with the backend-unreachable error: the [ERROR]
\* frame or the HTTPException detail names the unreachable backend.
C11_EveryCallEndsSilenceIsUnreachable ==
    /\ EveryCallEnds
    /\ [](\A c \in Calls :
            Unanswered(c) =>
                /\ Done(c)
                /\ req[c].stream =>
                       (Last(out[c]).kind = "error" /\ ReportsUnreachable(Last(out[c]).msg))
                /\ ~req[c].stream =>
                       (result[c].kind = "HTTPException"
                            /\ ReportsUnreachable(result[c].detail)))

\* --------------------------------------------------------------- isolation
\* everything the model holds for one call
CallState(c) ==
    <<pc[c], req[c], upstream[c], seen[c], lines[c], conn[c], full_content[c], out[c],
      cause[c], result[c], completion_tokens[c], time_taken[c]>>
CallStateNext(c) ==
    <<pc'[c], req'[c], upstream'[c], seen'[c], lines'[c], conn'[c], full_content'[c],
      out'[c], cause'[c], result'[c], completion_tokens'[c], time_taken'[c]>>

\* C12: under every interleaving of two calls, the fragments in a call's sink
\* are the deltas of the lines of that call's own backend stream, its
\* accumulated content and the total_chars of its [METADATA] frame are those
\* of its own fragments, its completion request names the model its own
\* request or its own catalog query gave, and a step of one call changes
\* nothing that belongs to another call.
C12_CallsShareNoState ==
    /\ [](\A c \in Calls :
            /\ FragmentTexts(out[c]) = ArrivedDeltas(lines[c])
            /\ full_content[c] = Concat(ArrivedDeltas(lines[c]))
            /\ pc[c] = "COMPLETED" =>
                   Last(out[c]).total_chars = Len(Concat(ArrivedDeltas(lines[c])))
            /\ PostsOf(upstream[c]) # <<>> =>
                   PostsOf(upstream[c])[1].model =
                       IF req[c].model # None THEN req[c].model ELSE seen[c][1].id)
    /\ [][\A c, d \in Calls :
            (c # d /\ CallStateNext(c) # CallState(c)) => CallStateNext(d) = CallState(d)]_vars

\* two overlapping streams, each with its own fragment: the second call's
\* stream ended after the first call's fragment had been accumulated
C12_Witness ==
    /\ FragmentTexts(out["c1"]) = <<"He">>
    /\ pc["c1"] = "s_yield"
    /\ pc["c2"] = "COMPLETED"
    /\ Last(out["c2"]).total_chars = 0

\* C13: the messages of a completion request are a function of the method and
\* the user message alone, the same on the streaming and the non-streaming
\* path: for basic the user message only; for tuning, rag and websearch a
\* system message followed by the user message, two entries; and composing
\* them never fails.
C13_MessagesByMethod ==
    \A c \in Calls :
        Arrived(c) =>
            LET m == upstream[c][1].messages
                user == [role |-> "user", content |-> req[c].message]
            IN  /\ cause[c] = NoExc
                /\ pc[c] \in {"s_open", "n_post"}
                /\ req[c].method = "basic" => m = <<user>>
                /\ req[c].method # "basic" =>
                       /\ Len(m) = 2
                       /\ m[1].role = "system" /\ m[1].content # ""
                       /\ m[2] = user
                /\ \A d \in Calls :
                       (Arrived(d) /\ req[d].method = req[c].method
                            /\ req[d].message = req[c].message)
                           => upstream[d][1].messages = m

\* a streaming and a non-streaming rag call with the same message
C13_Witness ==
    /\ req["c1"].method = "rag" /\ req["c2"].method = "rag"
    /\ req["c1"].stream /\ ~req["c2"].stream
    /\ req["c1"].message = "hi" /\ req["c2"].message = "hi"
    /\ Len(upstream["c1"][1].messages) = 2
    /\ Len(upstream["c2"][1].messages) = 2

\* a data line whose payload is neither the sentinel nor JSON
Malformed(l) == l.prefix = "data: " /\ l.data \notin {"[DONE]", "json"}
\* the line a step has added to the stream of call c, if it has added one
Reads(c, l) == lines'[c] = Append(lines[c], l)

\* C14: a step in which a malformed data line arrives yields no chunk, adds
\* nothing to the sink and leaves the relay where it was (reading, not
\* FAILED, no exception recorded, the stream still open); and a well-formed
\* line with a non-empty delta that arrives after a malformed one adds its
\* content fragment to the sink.
C14_MalformedLineSkipped ==
    [][\A c \in Calls : \A l \in Lines :
          Reads(c, l) =>
              /\ Malformed(l) =>
                     /\ Yielded(lines'[c]) = Yielded(lines[c])
                     /\ out'[c] = out[c]
                     /\ full_content'[c] = full_content[c]
                     /\ pc'[c] = "s_read"
                     /\ cause'[c] = NoExc
                     /\ conn'[c] = "open"
              /\ ((\E i \in DOMAIN lines[c] : Malformed(lines[c][i]))
                      /\ l.prefix = "data: " /\ l.data = "json"
                      /\ l.chunk.shape = "delta" /\ l.chunk.content # "") =>
                     /\ Len(out'[c]) = Len(out[c]) + 1
                     /\ Last(out'[c]).kind = "content"
                     /\ Last(out'[c]).text = l.chunk.content]_vars

\* "He" arrived after two malformed lines and was forwarded
C14_Witness ==
    \E c \in Calls :
        /\ Len(lines[c]) = 3
        /\ Malformed(lines[c][1]) /\ Malformed(lines[c][2])
        /\ out[c] = <<ContentFrame("He")>>
        /\ pc[c] = "s_yield"

\* a decoded chunk whose first choice has no content, or an empty one
NoContent(l) ==
    /\ l.prefix = "data: " /\ l.data = "json"
    /\ \/ l.chunk.shape = "nocontent"
       \/ l.chunk.shape = "delta" /\ l.chunk.content = ""
DeltaLine(s) == [prefix |-> "data: ", data |-> "json", chunk |-> [shape |-> "delta", content |-> s]]
\* the backend's deltas "He", "llo", "" and then the sentinel
Scenario ==
    <<DeltaLine("He"), DeltaLine("llo"), DeltaLine(""),
      [prefix |-> "data: ", data |-> "[DONE]", chunk |-> NoChunk]>>

\* C15: a step in which a chunk without content, or with empty content,
\* arrives adds nothing to the sink, leaves full_content as it was and leaves
\* the relay reading the open stream; and for the lines "He", "llo", "",
\* [DONE] the output is exactly the fragments "He" and "llo" followed by a
\* [METADATA] frame with total_chars = 5.
C15_EmptyDeltaSkipped ==
    /\ [][\A c \in Calls : \A l \in Lines :
            (Reads(c, l) /\ NoContent(l)) =>
                /\ out'[c] = out[c]
                /\ full_content'[c] = full_content[c]
                /\ pc'[c] = "s_read"
                /\ cause'[c] = NoExc
                /\ conn'[c] = "open"]_vars
    /\ [](\A c \in Calls :
            lines[c] = Scenario =>
                /\ Len(out[c]) = 3
                /\ out[c][1].kind = "content" /\ out[c][1].text = "He"
                /\ out[c][2].kind = "content" /\ out[c][2].text = "llo"
                /\ out[c][3].kind = "metadata" /\ out[c][3].total_chars = 5
                /\ pc[c] = "COMPLETED")

\* the scenario has run to its end
C15_Witness ==
    \E c \in Calls :
        /\ lines[c] = Scenario
        /\ pc[c] = "COMPLETED"
        /\ full_content[c] = "Hello"

\* the response reports the quotient to the nearest hundredth
NearestHundredth(h, tokens, ms) ==
    LET diff == h * ms - 100000 * tokens
    IN  2 * (IF diff < 0 THEN -diff ELSE diff) <= ms

\* C16 (as stated): a returned call reports completion_tokens / elapsed to
\* two decimals when elapsed > 0 and 0 otherwise, never a negative number,
\* and 0 exactly when elapsed <= 0 or completion_tokens = 0.
C16_ZeroOnlyWithoutTokensOrTime ==
    \A c \in Calls :
        pc[c] = "RETURNED" =>
            LET tps == result[c].tokens_per_second IN
            /\ tps >= 0
            /\ time_taken[c] > 0 => NearestHundredth(tps, completion_tokens[c], time_taken[c])
            /\ time_taken[c] <= 0 => tps = 0
            /\ tps = 0 <=> (time_taken[c] <= 0 \/ completion_tokens[c] = 0)

\* C16 (amended): a returned call reports completion_tokens / elapsed to two
\* decimals when elapsed > 0 and 0 otherwise, never a negative number; it
\* reports 0 when elapsed <= 0, when completion_tokens = 0 and when the
\* quotient is below 0.005 tokens per second, and more than 0 when elapsed > 0
\* and the quotient is above 0.005.
C16_ZeroWhenQuotientRoundsToZero ==
    \A c \in Calls :
        pc[c] = "RETURNED" =>
            LET tps == result[c].tokens_per_second IN
            /\ tps >= 0
            /\ time_taken[c] > 0 => NearestHundredth(tps, completion_tokens[c], time_taken[c])
            /\ (time_taken[c] <= 0 \/ completion_tokens[c] = 0
                    \/ 200000 * completion_tokens[c] < time_taken[c]) => tps = 0
            /\ (time_taken[c] > 0 /\ 200000 * completion_tokens[c] > time_taken[c]) => tps > 0

\* one token in 250 seconds is reported as 0.00, two tokens in 3 seconds as
\* 0.67
C16_Witness ==
    /\ pc["c1"] = "RETURNED" /\ pc["c2"] = "RETURNED"
    /\ completion_tokens["c1"] = 1 /\ time_taken["c1"] = 250000
    /\ result["c1"].tokens_per_second = 0
    /\ completion_tokens["c2"] = 2 /\ time_taken["c2"] = 3000
    /\ result["c2"].tokens_per_second = 67

Listed(r) == r.kind = "ModelsResponse"

\* C17: while the backend's catalog does not change, every list get_models
\* returns holds one ModelInfo per catalog record, in catalog order, with id
\* and name both the record's id; any two lists returned, to the same caller
\* or to different ones, before or after a failed call, are equal.
C17_GetModelsIdempotent ==
    \A c \in Calls : \A i \in DOMAIN returned[c] :
        Listed(returned[c][i]) =>
            /\ Len(returned[c][i].models) = Len(catalog)
            /\ returned[c][i].count = Len(catalog)
            /\ \A k \in DOMAIN catalog :
                   /\ returned[c][i].models[k].id = catalog[k].id
                   /\ returned[c][i].models[k].name = catalog[k].id
            /\ \A d \in Calls : \A j \in DOMAIN returned[d] :
                   Listed(returned[d][j]) => returned[d][j] = returned[c][i]

\* a caller listed the two models of the catalog twice, with a failed call
\* between, and another caller listed them too
C17_Witness ==
    /\ Len(catalog) = 2
    /\ Len(returned["c1"]) = 3
    /\ Listed(returned["c1"][1]) /\ ~Listed(returned["c1"][2]) /\ Listed(returned["c1"][3])
    /\ returned["c2"] # <<>> /\ Listed(returned["c2"][1])

\* the texts with which chat_completion starts the message of the error it
\* raises for a failed completion
CompletionFailed == {"Failed to communicate with vLLM server: ", "Chat completion error: "}
\* the failures of the completion request that C18 is about: no answer from
\* the backend, an empty body, a body that is not JSON
TransportOrBody(e) ==
    \/ e.type = "RequestError"
    \/ e.msg # <<>> /\ e.msg[1] \in {"Empty response from vLLM server",
                                     "Invalid JSON response from vLLM: "}

\* C18: a non-streaming call whose completion request met a transport
\* failure, an empty body or a body that is not JSON is rejected, after that
\* one request, with the completion failure: an error whose message is one of
\* chat_completion's two prefixes followed by the message of the cause (the
\* transport prefix exactly for a transport failure); and a call whose
\* completion request got a parseable completion returns the content and the
\* model the backend sent.
C18_CompletionFailureCarriesCause ==
    \A c \in Calls :
        /\ (~req[c].stream /\ TransportOrBody(cause[c])) =>
               /\ pc[c] = "REJECTED"
               /\ Len(PostsOf(upstream[c])) = 1
               /\ Len(result[c].detail) >= 2
               /\ result[c].detail[2] \in CompletionFailed
               /\ result[c].detail[2] = "Failed to communicate with vLLM server: "
                      <=> cause[c].type = "RequestError"
               /\ SubSeq(result[c].detail, 3, Len(result[c].detail)) = cause[c].msg
        /\ pc[c] = "RETURNED" =>
               /\ result[c].content = "Hello"
               /\ result[c].model = SentModel(c)

\* the backend answered the completion request with a body that is not JSON
C18_Witness ==
    \E c \in Calls :
        /\ pc[c] = "REJECTED"
        /\ result[c].detail =
               <<"Chat processing failed: ", "Chat completion error: ",
                 "Invalid JSON response from vLLM: ", "Expecting value">>

\* the end-of-stream sentinel line
Sentinel(l) == l.prefix = "data: " /\ l.data = "[DONE]"

\* C19: once the line 'data: [DONE]' has arrived on a call's stream, it is
\* the last line read from that stream; the stream is closed; no exception
\* was raised; the relay is COMPLETED and its output is the fragments of the
\* deltas that arrived before the sentinel followed by the [METADATA] frame;
\* and no later step reads a line or adds a frame.
C19_SentinelEndsStream ==
    /\ [](\A c \in Calls : \A i \in DOMAIN lines[c] :
            Sentinel(lines[c][i]) =>
                /\ i = Len(lines[c])
                /\ conn[c] = "closed"
                /\ cause[c] = NoExc
                /\ pc[c] = "COMPLETED"
                /\ out[c] # <<>> /\ Last(out[c]).kind = "metadata"
                /\ FragmentTexts(out[c]) = ArrivedDeltas(SubSeq(lines[c], 1, i - 1))
                /\ Len(out[c]) = Len(FragmentTexts(out[c])) + 1)
    /\ [][\A c \in Calls :
            (\E i \in DOMAIN lines[c] : Sentinel(lines[c][i])) =>
                (lines'[c] = lines[c] /\ out'[c] = out[c] /\ pc'[c] = pc[c])]_vars

\* the sentinel arrived after the delta "He"
C19_Witness ==
    \E c \in Calls :
        /\ Len(lines[c]) = 2
        /\ Sentinel(lines[c][2])
        /\ FragmentTexts(out[c]) = <<"He">>
        /\ Len(out[c]) = 2 /\ out[c][2].kind = "metadata" /\ out[c][2].total_chars = 2

\* C20: a streaming call that has reached COMPLETED or FAILED has no open
\* backend stream, whether the failure came from the backend client or was
\* raised in the relay's own handling of a chunk.
C20_TerminalStateClosesStream ==
    \A c \in Calls : pc[c] \in {"COMPLETED", "FAILED"} => conn[c] # "open"

\* a step in which the stream of call c, being read, is closed with no line
\* read, no transport error and no cancellation: the backend ended it
EndsCleanly(c) ==
    /\ pc[c] = "s_read" /\ conn[c] = "open" /\ conn'[c] = "closed"
    /\ lines'[c] = lines[c]
    /\ pc'[c] # "CANCELLED"
    /\ cause'[c].type # "RequestError"

\* C21: when the backend ends a stream on which no 'data: [DONE]' has
\* arrived, the relay moves to COMPLETED without an exception and adds one
\* frame, the [METADATA] frame whose total_chars is the length of the
\* fragments emitted so far; and a step in which a line that does not start
\* with 'data: ' arrives yields no chunk, adds nothing to the sink and leaves
\* the relay reading the open stream.
C21_EndWithoutSentinelCompletes ==
    [][\A c \in Calls :
          /\ EndsCleanly(c) =>
                 /\ \A i \in DOMAIN lines[c] : ~Sentinel(lines[c][i])
                 /\ pc'[c] = "COMPLETED"
                 /\ cause'[c] = NoExc
                 /\ Len(out'[c]) = Len(out[c]) + 1
                 /\ Front(out'[c]) = out[c]
                 /\ Last(out'[c]).kind = "metadata"
                 /\ Last(out'[c]).total_chars = Len(Concat(FragmentTexts(out[c])))
                 /\ \A i \in DOMAIN out'[c] : out'[c][i].kind # "error"
          /\ \A l \in Lines :
                 (Reads(c, l) /\ l.prefix # "data: ") =>
                     /\ Yielded(lines'[c]) = Yielded(lines[c])
                     /\ out'[c] = out[c]
                     /\ full_content'[c] = full_content[c]
                     /\ pc'[c] = "s_read"
                     /\ cause'[c] = NoExc
                     /\ conn'[c] = "open"]_vars

\* the stream ended after a blank line, the delta "He" and another blank
\* line, without the sentinel
C21_Witness ==
    \E c \in Calls :
        /\ pc[c] = "COMPLETED"
        /\ Len(lines[c]) = 3
        /\ lines[c][1].prefix = "" /\ lines[c][3].prefix = ""
        /\ \A i \in DOMAIN lines[c] : ~Sentinel(lines[c][i])
        /\ Len(out[c]) = 2
        /\ out[c][1].text = "He"
        /\ out[c][2].kind = "metadata" /\ out[c][2].total_chars = 2

====
